---- MODULE Spec2Model ----
(***************************************************************************)
(* Model of cim.py: generate_cim_content (the row-to-record transformer)   *)
(* and the upload flow around it.                                          *)
(*                                                                         *)
(* Text is a sequence of one-character strings, so that strip(), lower(),  *)
(* the newline translation of io.StringIO and the rendering of numbers and *)
(* dates are computed character by character.                              *)
(*                                                                         *)
(* A cell is a record [k, s, n]:                                           *)
(*   k = "nan"    a missing cell (float NaN, what the readers of pandas    *)
(*                give for an empty cell)                                  *)
(*   k = "none"   Python None (what row.get(col) gives for a column the    *)
(*                table does not have)                                     *)
(*   k = "str"    a text cell, s its characters                            *)
(*   k = "int"    a Python int, n its value                                *)
(*   k = "float"  a finite float with one decimal digit, n = 10 * value    *)
(*   k = "inf"    the float +infinity                                      *)
(*   k = "date"   a Timestamp at midnight, n = 10000*year + 100*month + day*)
(* A row is a function from the column names the table has to cells.       *)
(***************************************************************************)
EXTENDS Integers, Sequences, FiniteSets, TLC

\* entry     how the run starts: "call" (generate_cim_content is called with
\*           a table as it is) or "upload" (the page is run on an uploaded file)
\* file      the table passed, or the uploaded file
\* pc        "start", "loop" (in generate_cim_content), "done", "fatal"
\* df        the DataFrame: a sequence of [index, row]
\* i         the position of the loop in df
\* output    the content of the StringIO
\* warnings  the st.warning calls of the loop, each [pos, err]
\* ui        what the upload flow has put on the page
VARIABLES entry, file, pc, df, i, output, warnings, ui

vars == <<entry, file, pc, df, i, output, warnings, ui>>

\* The number of data rows of an input table.
MaxRows == 2

-----------------------------------------------------------------------------
(* Cells *)

NaN == [k |-> "nan", s |-> <<>>, n |-> 0]
None == [k |-> "none", s |-> <<>>, n |-> 0]
Inf == [k |-> "inf", s |-> <<>>, n |-> 0]
Str(t) == [k |-> "str", s |-> t, n |-> 0]
Int_(v) == [k |-> "int", s |-> <<>>, n |-> v]
Float(v10) == [k |-> "float", s |-> <<>>, n |-> v10]
Date(y, m, d) == [k |-> "date", s |-> <<>>, n |-> 10000 * y + 100 * m + d]

-----------------------------------------------------------------------------
(* Text *)

Whitespace == {" ", "\t", "\n", "\r"}

DigitChars == <<"0", "1", "2", "3", "4", "5", "6", "7", "8", "9">>

IsDigit(c) == \E d \in 1..10 : DigitChars[d] = c

DigitVal(c) == (CHOOSE d \in 1..10 : DigitChars[d] = c) - 1

UpperChars == <<"A", "B", "C", "D", "E", "F", "G", "H", "I", "J", "K", "L", "M",
                "N", "O", "P", "Q", "R", "S", "T", "U", "V", "W", "X", "Y", "Z">>

LowerChars == <<"a", "b", "c", "d", "e", "f", "g", "h", "i", "j", "k", "l", "m",
                "n", "o", "p", "q", "r", "s", "t", "u", "v", "w", "x", "y", "z">>

\* str.lower(), one character
LowerChar(c) ==
    IF \E u \in 1..26 : UpperChars[u] = c
    THEN LowerChars[CHOOSE u \in 1..26 : UpperChars[u] = c]
    ELSE c

\* str.lower()
Lower(t) == [j \in 1..Len(t) |-> LowerChar(t[j])]

\* str.lstrip(): the text from its first non-whitespace character
RECURSIVE LStrip(_)
LStrip(t) ==
    IF t = <<>> THEN <<>>
    ELSE IF Head(t) \in Whitespace THEN LStrip(Tail(t))
    ELSE t

\* str.rstrip(): the text up to its last non-whitespace character
RECURSIVE RStrip(_)
RStrip(t) ==
    IF t = <<>> THEN <<>>
    ELSE IF t[Len(t)] \in Whitespace THEN RStrip(SubSeq(t, 1, Len(t) - 1))
    ELSE t

\* str.strip()
Strip(t) == RStrip(LStrip(t))

\* str(n) of a Python int >= 0
RECURSIVE NatToStr(_)
NatToStr(v) ==
    IF v < 10 THEN <<DigitChars[v + 1]>>
    ELSE NatToStr(v \div 10) \o <<DigitChars[(v % 10) + 1]>>

\* str(n) of a Python int
IntToStr(v) == IF v < 0 THEN <<"-">> \o NatToStr(-v) ELSE NatToStr(v)

\* int(x) of a finite float x = v10 / 10: truncation towards zero
Trunc(v10) == IF v10 >= 0 THEN v10 \div 10 ELSE -((-v10) \div 10)

\* str(x) of a finite float x = v10 / 10: always with a decimal point
FloatToStr(v10) ==
    LET a == IF v10 < 0 THEN -v10 ELSE v10
    IN  (IF v10 < 0 THEN <<"-">> ELSE <<>>)
        \o NatToStr(a \div 10) \o <<".">> \o <<DigitChars[(a % 10) + 1]>>

\* a number of w digits, zero-padded on the left (w = 2 or 4 below)
RECURSIVE Pad(_, _)
Pad(v, w) == IF w = 0 THEN <<>> ELSE Pad(v \div 10, w - 1) \o <<DigitChars[(v % 10) + 1]>>

\* str(Timestamp) of a Timestamp at midnight: "YYYY-MM-DD 00:00:00"
TimestampToStr(n) ==
    Pad(n \div 10000, 4) \o <<"-">> \o Pad((n \div 100) % 100, 2) \o <<"-">>
    \o Pad(n % 100, 2) \o <<" ", "0", "0", ":", "0", "0", ":", "0", "0">>

\* str(x) of a cell value
PyStr(c) ==
    CASE c.k = "str" -> c.s
      [] c.k = "nan" -> <<"n", "a", "n">>
      [] c.k = "none" -> <<"N", "o", "n", "e">>
      [] c.k = "inf" -> <<"i", "n", "f">>
      [] c.k = "int" -> IntToStr(c.n)
      [] c.k = "float" -> FloatToStr(c.n)
      [] c.k = "date" -> TimestampToStr(c.n)

-----------------------------------------------------------------------------
(* pandas: to_numeric, isna, to_datetime, strftime *)

AllDigits(t) == t /= <<>> /\ \A j \in 1..Len(t) : IsDigit(t[j])

\* the value of a text of digits
RECURSIVE ParseNat(_)
ParseNat(t) ==
    IF t = <<>> THEN 0
    ELSE 10 * ParseNat(SubSeq(t, 1, Len(t) - 1)) + DigitVal(t[Len(t)])

\* digits, a point and one digit
IsDecimal(t) ==
    /\ Len(t) >= 3
    /\ t[Len(t) - 1] = "."
    /\ IsDigit(t[Len(t)])
    /\ AllDigits(SubSeq(t, 1, Len(t) - 2))

\* pd.to_numeric(x, errors='coerce') of a scalar: a number is returned as it
\* is; None and NaN give NaN; a text is parsed, and a text that is no numeral
\* gives NaN. The texts of the model are plain numerals ("10", "5.5"), the
\* spellings of infinity, and texts that are numerals in no notation.
ToNumeric(c) ==
    CASE c.k \in {"int", "float", "inf", "nan"} -> c
      [] c.k = "none" -> NaN
      [] c.k = "str" ->
            IF AllDigits(c.s) THEN Int_(ParseNat(c.s))
            ELSE IF IsDecimal(c.s)
                 THEN Float(10 * ParseNat(SubSeq(c.s, 1, Len(c.s) - 2))
                            + DigitVal(c.s[Len(c.s)]))
            ELSE IF Lower(c.s) \in {<<"i", "n", "f">>,
                                    <<"i", "n", "f", "i", "n", "i", "t", "y">>}
                 THEN Inf
            ELSE NaN

\* pd.isna / pd.notna of a scalar
IsNa(c) == c.k \in {"nan", "none"}

NotNa(c) == ~IsNa(c)

\* the result of an expression that may raise
Ok(t) == [raised |-> FALSE, val |-> t, err |-> ""]

Raise(e) == [raised |-> TRUE, val |-> <<>>, err |-> e]

IsLeap(y) == (y % 4 = 0 /\ y % 100 /= 0) \/ y % 400 = 0

DaysIn(y, m) ==
    IF m = 2 THEN (IF IsLeap(y) THEN 29 ELSE 28)
    ELSE IF m \in {4, 6, 9, 11} THEN 30 ELSE 31

\* "YYYY-MM-DD" naming a day of the calendar
IsIsoDate(t) ==
    /\ Len(t) = 10
    /\ t[5] = "-" /\ t[8] = "-"
    /\ AllDigits(SubSeq(t, 1, 4)) /\ AllDigits(SubSeq(t, 6, 7))
    /\ AllDigits(SubSeq(t, 9, 10))
    /\ LET y == ParseNat(SubSeq(t, 1, 4))
           m == ParseNat(SubSeq(t, 6, 7))
           d == ParseNat(SubSeq(t, 9, 10))
       IN  y >= 1 /\ m \in 1..12 /\ d \in 1..DaysIn(y, m)

\* pd.to_datetime(x) of a scalar that is not NaN: a Timestamp is returned as
\* it is, a text is parsed and the parse raises when the text is no date. The
\* date texts of the model are ISO dates and texts that are dates in no
\* notation; the result is the day number 10000*y + 100*m + d.
ToDatetime(c) ==
    CASE c.k = "date" -> [raised |-> FALSE, val |-> c.n, err |-> ""]
      [] c.k = "str" ->
            IF IsIsoDate(c.s)
            THEN [raised |-> FALSE,
                  val |-> 10000 * ParseNat(SubSeq(c.s, 1, 4))
                          + 100 * ParseNat(SubSeq(c.s, 6, 7))
                          + ParseNat(SubSeq(c.s, 9, 10)),
                  err |-> ""]
            ELSE [raised |-> TRUE, val |-> 0, err |-> "DateParseError"]

\* strftime('%d/%m/%y'): the day and the month on two digits (a faulty
\* variant of Strftime)
StrftimePadded(n) ==
    Pad(n % 100, 2) \o <<"/">> \o Pad((n \div 100) % 100, 2) \o <<"/">>
    \o Pad((n \div 10000) % 100, 2)

\* Timestamp.strftime('%-d/%-m/%y'): the day and the month without padding,
\* the year of the century on two digits (the glibc reading of %-d and %-m)
Strftime(n) ==
    IntToStr(n % 100) \o <<"/">> \o IntToStr((n \div 100) % 100) \o <<"/">>
    \o Pad((n \div 10000) % 100, 2)

-----------------------------------------------------------------------------
(* generate_cim_content: the fields of one row *)

\* row.get(col, default)
Get(row, col, default) == IF col \in DOMAIN row THEN row[col] ELSE default

\* str(row.get(col, '')).strip()
TextField(row, col) == Strip(PyStr(Get(row, col, Str(<<>>))))

pt_part(row) == TextField(row, "pt part")

\* the test without the sentinel (a faulty variant of SkipRow)
SkipRowEmptyOnly(row) == pt_part(row) = <<>>

\* the test without lower() (a faulty variant of SkipRow)
SkipRowCaseSensitive(row) == pt_part(row) = <<>> \/ pt_part(row) = <<"n", "a", "n">>

\* not pt_part or pt_part.lower() == 'nan'
SkipRow(row) == pt_part(row) = <<>> \/ Lower(pt_part(row)) = <<"n", "a", "n">>

\* the quantity: '0' for NaN; int(qty_val) raises OverflowError for an
\* infinity; a whole number is rendered as an int, any other as the float
qty(row) ==
    LET qty_val == ToNumeric(Get(row, "lotserial qty", None))
    IN  CASE IsNa(qty_val) -> Ok(<<"0">>)
          [] qty_val.k = "inf" -> Raise("OverflowError")
          [] qty_val.k = "int" -> Ok(IntToStr(qty_val.n))
          [] qty_val.k = "float" ->
                IF qty_val.n = 10 * Trunc(qty_val.n)
                THEN Ok(IntToStr(Trunc(qty_val.n)))
                ELSE Ok(FloatToStr(qty_val.n))

site(row) == TextField(row, "site")

location(row) == TextField(row, "location")

\* the lot reference of the record is the 'ordernbr' column of the template
lot_ref(row) == TextField(row, "ordernbr")

\* the order number of the record is the 'rmks' column of the template
order_nbr(row) == TextField(row, "rmks")

\* the effective date: '' for a missing one, else the parsed date formatted;
\* the parse raises for a text that is no date
eff_date(row) ==
    LET eff_date_val == Get(row, "eff date", None)
    IN  IF NotNa(eff_date_val)
        THEN LET ts == ToDatetime(eff_date_val)
             IN  IF ts.raised THEN Raise(ts.err) ELSE Ok(Strftime(ts.val))
        ELSE Ok(<<>>)

\* an account: str(int(val)) for a number, '0' for NaN; int(val) truncates
\* and raises OverflowError for an infinity
dr_acct(row, col) ==
    LET val == ToNumeric(Get(row, col, None))
    IN  CASE IsNa(val) -> Ok(<<"0">>)
          [] val.k = "inf" -> Raise("OverflowError")
          [] val.k = "int" -> Ok(IntToStr(val.n))
          [] val.k = "float" -> Ok(IntToStr(Trunc(val.n)))

dr_acct1(row) == dr_acct(row, "dr acct")

dr_acct2(row) == dr_acct(row, "dr acct.1")

-----------------------------------------------------------------------------
(* generate_cim_content: the record *)

Q == <<"\"">>

SP == <<" ">>

NL == <<"\n">>

HeaderText == <<"@", "@", "b", "a", "t", "c", "h", "l", "o", "a", "d", " ", " ",
                "i", "c", "u", "n", "i", "s", ".", "p">>

EndText == <<"@", "@", "e", "n", "d">>

\* a record with one placeholder line (a faulty variant of RecordWrites)
RecordWritesShort(row) ==
    << HeaderText \o NL,
       Q \o pt_part(row) \o Q \o SP \o NL,
       qty(row).val \o <<" ", "-", " ", "-", " ">> \o Q \o site(row) \o Q \o SP
           \o Q \o location(row) \o Q \o <<" ", "\"", "\"", " ", "\"", "\"", " ">> \o NL,
       Q \o lot_ref(row) \o Q \o <<" ", "-", " ", "-", " ", "\"", "\"", " ">>
           \o Q \o order_nbr(row) \o Q \o SP \o eff_date(row).val \o SP
           \o dr_acct1(row).val \o SP \o dr_acct2(row).val \o SP \o NL,
       <<"-", " ">> \o NL,
       EndText \o NL >>

\* the seven strings the seven output.write calls of one record are given
RecordWrites(row) ==
    << HeaderText \o NL,
       Q \o pt_part(row) \o Q \o SP \o NL,
       qty(row).val \o <<" ", "-", " ", "-", " ">> \o Q \o site(row) \o Q \o SP
           \o Q \o location(row) \o Q \o <<" ", "\"", "\"", " ", "\"", "\"", " ">> \o NL,
       Q \o lot_ref(row) \o Q \o <<" ", "-", " ", "-", " ", "\"", "\"", " ">>
           \o Q \o order_nbr(row) \o Q \o SP \o eff_date(row).val \o SP
           \o dr_acct1(row).val \o SP \o dr_acct2(row).val \o SP \o NL,
       <<"-", " ">> \o NL,
       <<"-", " ">> \o NL,
       EndText \o NL >>

\* a StringIO that leaves "\n" as it is (a faulty variant of Translate)
TranslateNone(t) == t

\* io.StringIO(newline='\r\n'): what write() stores for the text it is given
RECURSIVE Translate(_)
Translate(t) ==
    IF t = <<>> THEN <<>>
    ELSE (IF Head(t) = "\n" THEN <<"\r", "\n">> ELSE <<Head(t)>>) \o Translate(Tail(t))

\* a write that puts the text before what is there (a faulty variant of Write)
WriteBefore(out, t) == Translate(t) \o out

\* output.write(t)
Write(out, t) == out \o Translate(t)

\* a sequence of output.write calls
RECURSIVE WriteAll(_, _)
WriteAll(out, ws) ==
    IF ws = <<>> THEN out ELSE WriteAll(Write(out, Head(ws)), Tail(ws))

\* a loop body that writes the first two lines of the record before it
\* computes the other fields (a faulty variant of RowOutcome)
RowOutcomeWritesFirst(row) ==
    LET first == <<HeaderText \o NL, Q \o pt_part(row) \o Q \o SP \o NL>>
    IN  IF SkipRow(row) THEN [kind |-> "skip", writes |-> <<>>, err |-> ""]
        ELSE IF qty(row).raised
             THEN [kind |-> "error", writes |-> first, err |-> qty(row).err]
        ELSE IF eff_date(row).raised
             THEN [kind |-> "error", writes |-> first, err |-> eff_date(row).err]
        ELSE IF dr_acct1(row).raised
             THEN [kind |-> "error", writes |-> first, err |-> dr_acct1(row).err]
        ELSE IF dr_acct2(row).raised
             THEN [kind |-> "error", writes |-> first, err |-> dr_acct2(row).err]
        ELSE [kind |-> "emit", writes |-> RecordWrites(row), err |-> ""]

\* The body of the loop for one row: the row is skipped without a word, or
\* the first expression that raises ends it (nothing is written before every
\* field is computed), or its record is written.
RowOutcome(row) ==
    IF SkipRow(row) THEN [kind |-> "skip", writes |-> <<>>, err |-> ""]
    ELSE IF qty(row).raised
         THEN [kind |-> "error", writes |-> <<>>, err |-> qty(row).err]
    ELSE IF eff_date(row).raised
         THEN [kind |-> "error", writes |-> <<>>, err |-> eff_date(row).err]
    ELSE IF dr_acct1(row).raised
         THEN [kind |-> "error", writes |-> <<>>, err |-> dr_acct1(row).err]
    ELSE IF dr_acct2(row).raised
         THEN [kind |-> "error", writes |-> <<>>, err |-> dr_acct2(row).err]
    ELSE [kind |-> "emit", writes |-> RecordWrites(row), err |-> ""]

\* what is added to the row's index label in the warning
HeaderAdjust == 2

\* st.warning(f"Skipping row {index + 2} due to an error: {e}. ...")
Warning(index, e) == [pos |-> index + HeaderAdjust, err |-> e]

-----------------------------------------------------------------------------
(* The input tables *)

\* the row of the template's example
BaseRow ==
    ("pt part" :> Str(<<"A", "B", "C", "1", "2", "3">>))
    @@ ("lotserial qty" :> Int_(10))
    @@ ("site" :> Str(<<"S", "1">>))
    @@ ("location" :> Str(<<"L", "1">>))
    @@ ("ordernbr" :> Str(<<"P", "O", "9", "9">>))
    @@ ("rmks" :> Str(<<"R", "E", "M", "A", "R", "K", "1">>))
    @@ ("eff date" :> Date(2024, 7, 3))
    @@ ("dr acct" :> Int_(100))
    @@ ("dr acct.1" :> Int_(200))

Columns == DOMAIN BaseRow

\* the base row with other cells in some columns
With(cells) == [c \in Columns |-> IF c \in DOMAIN cells THEN cells[c] ELSE BaseRow[c]]

PtPartCells ==
    { NaN, Str(<<>>), Str(<<" ", " ">>), Str(<<" ", "N", "a", "N", " ">>),
      Str(<<" ", "P", "2", " ">>) }

QtyCells ==
    { NaN, Str(<<"a", "b", "c">>), Float(50), Float(55), Str(<<"7", ".", "5">>), Inf }

EffDateCells ==
    { NaN, Str(<<"b", "a", "d">>),
      Str(<<"2", "0", "0", "5", "-", "1", "2", "-", "2", "5">>) }

\* the rows of the model: the base row, and the base row with one column (or
\* one group of columns) changed
Rows ==
    {BaseRow}
    \cup {With("pt part" :> c) : c \in PtPartCells}
    \cup {With("lotserial qty" :> c) : c \in QtyCells}
    \cup {With("eff date" :> c) : c \in EffDateCells}
    \cup { With(("site" :> NaN) @@ ("location" :> NaN) @@ ("ordernbr" :> NaN)
                @@ ("rmks" :> NaN)),
           With(("site" :> Str(<<>>)) @@ ("location" :> Str(<<" ">>))
                @@ ("ordernbr" :> Str(<<>>)) @@ ("rmks" :> Str(<<" ", " ">>))),
           With(("dr acct" :> NaN) @@ ("dr acct.1" :> Str(<<"x">>))),
           With(("dr acct" :> Float(1007)) @@ ("dr acct.1" :> Str(<<"4", "2">>))),
           With("dr acct" :> Inf),
           With(("lotserial qty" :> Inf) @@ ("eff date" :> Str(<<"b", "a", "d">>))),
           With(("pt part" :> NaN) @@ ("lotserial qty" :> Inf)
                @@ ("eff date" :> Str(<<"b", "a", "d">>))) }

\* the base row of a table that lacks some columns
Without(cols) == [c \in Columns \ cols |-> BaseRow[c]]

MissingColumns ==
    { {"pt part"}, {"lotserial qty"}, {"eff date"},
      {"site", "location", "ordernbr", "rmks", "dr acct", "dr acct.1"} }

\* the sequences of at most n elements of S
SeqUpTo(S, n) == UNION {[1..m -> S] : m \in 0..n}

\* the tables: every row of a table has the same columns
Tables ==
    SeqUpTo(Rows, MaxRows)
    \cup UNION { SeqUpTo({Without(cols)}, MaxRows) \ {<<>>} : cols \in MissingColumns }

\* what generate_cim_content is passed when it is called directly
Inputs == {[kind |-> "table", rows |-> t] : t \in Tables}

\* the rows of the uploaded files: the part number cells the filter of the
\* upload flow tells apart, and rows the loop warns about or writes
UploadRows ==
    {BaseRow}
    \cup {With("pt part" :> c) : c \in PtPartCells}
    \cup { With("eff date" :> Str(<<"b", "a", "d">>)),
           With(("site" :> NaN) @@ ("location" :> NaN) @@ ("ordernbr" :> NaN)
                @@ ("rmks" :> NaN)) }

\* what is uploaded: a table, with or without its 'pt part' column, or a
\* file no reader can parse
Uploads ==
    {[kind |-> "table", rows |-> t] : t \in SeqUpTo(UploadRows, MaxRows)}
    \cup {[kind |-> "table", rows |-> t] :
             t \in SeqUpTo({Without({"pt part"})}, MaxRows) \ {<<>>}}
    \cup {[kind |-> "unreadable", rows |-> <<>>]}

-----------------------------------------------------------------------------
(* The state machine *)

\* the rows of a table under the default index 0, 1, 2, ...
Indexed(rows) == [k \in 1..Len(rows) |-> [index |-> k - 1, row |-> rows[k]]]

\* df.dropna(subset=['pt part']) and df[df['pt part'].astype(str).str.strip() != '']
Keep(e) == NotNa(e.row["pt part"]) /\ Strip(PyStr(e.row["pt part"])) /= <<>>

\* pd.read_csv / pd.read_excel raises, or df.dropna raises KeyError
LoadRaises(f) ==
    \/ f.kind = "unreadable"
    \/ \E k \in 1..Len(f.rows) : "pt part" \notin DOMAIN f.rows[k]

\* a page that offers the download whatever the content (a faulty variant of Offer)
OfferAlways(out) == <<"cim_preview", "download_button">>

\* what the page shows when the loop is over
Offer(out) ==
    IF out /= <<>> THEN <<"cim_preview", "download_button">> ELSE <<"no_data_warning">>

Init ==
    /\ \/ entry = "call" /\ file \in Inputs
       \/ entry = "upload" /\ file \in Uploads
    /\ pc = "start"
    /\ df = <<>>
    /\ i = 1
    /\ output = <<>>
    /\ warnings = <<>>
    /\ ui = <<>>

\* generate_cim_content(df) called with a table as it is
Call ==
    /\ pc = "start" /\ entry = "call"
    /\ df' = Indexed(file.rows)
    /\ pc' = "loop"
    /\ UNCHANGED <<entry, file, i, output, warnings, ui>>

\* the upload flow: the file is read and filtered, the rows keep their labels
LoadFile ==
    /\ pc = "start" /\ entry = "upload"
    /\ ~LoadRaises(file)
    /\ df' = SelectSeq(Indexed(file.rows), Keep)
    /\ ui' = <<"success", "data_preview">>
    /\ pc' = "loop"
    /\ UNCHANGED <<entry, file, i, output, warnings>>

\* the upload flow: reading or filtering raises
LoadError ==
    /\ pc = "start" /\ entry = "upload"
    /\ LoadRaises(file)
    /\ ui' = <<"error", "template_warning">>
    /\ pc' = "fatal"
    /\ UNCHANGED <<entry, file, df, i, output, warnings>>

\* one turn of the loop over df.iterrows()
ProcessRow ==
    /\ pc = "loop" /\ i <= Len(df)
    /\ LET o == RowOutcome(df[i].row)
       IN  /\ output' = WriteAll(output, o.writes)
           /\ warnings' = IF o.kind = "error"
                          THEN Append(warnings, Warning(df[i].index, o.err))
                          ELSE warnings
    /\ i' = i + 1
    /\ UNCHANGED <<entry, file, pc, df, ui>>

\* the loop is over: output.getvalue() is returned, and the upload flow
\* offers it when it is not empty
Return ==
    /\ pc = "loop" /\ i > Len(df)
    /\ pc' = "done"
    /\ ui' = IF entry = "upload" THEN ui \o Offer(output) ELSE ui
    /\ UNCHANGED <<entry, file, df, i, output, warnings>>

Next == Call \/ LoadFile \/ LoadError \/ ProcessRow \/ Return

Spec == Init /\ [][Next]_vars

-----------------------------------------------------------------------------
(* Reading the output back: lines, fields *)

CRLF == <<"\r", "\n">>

\* the positions of the text where sep begins (sep does not overlap itself)
SepAt(t, sep) ==
    {j \in 1..(Len(t) - Len(sep) + 1) : SubSeq(t, j, j + Len(sep) - 1) = sep}

\* str.split(sep) of the text from position start on, P the positions of sep
RECURSIVE SplitFrom(_, _, _, _)
SplitFrom(t, sep, P, start) ==
    LET rest == {j \in P : j >= start}
    IN  IF rest = {} THEN <<SubSeq(t, start, Len(t))>>
        ELSE LET j == CHOOSE a \in rest : \A b \in rest : a <= b
             IN  <<SubSeq(t, start, j - 1)>> \o SplitFrom(t, sep, P, j + Len(sep))

\* str.split(sep)
Split(t, sep) == SplitFrom(t, sep, SepAt(t, sep), 1)

\* every line of the text has its terminator
Terminated(t) == LET p == Split(t, CRLF) IN p[Len(p)] = <<>>

\* the lines of a text, without their terminators
Lines(t) ==
    LET p == Split(t, CRLF)
    IN  IF p[Len(p)] = <<>> THEN SubSeq(p, 1, Len(p) - 1) ELSE p

\* the fields of a line, separated by one space
Fields(line) == Split(line, <<" ">>)

\* the lines, each followed by CR LF
RECURSIVE JoinCRLF(_)
JoinCRLF(ls) == IF ls = <<>> THEN <<>> ELSE Head(ls) \o CRLF \o JoinCRLF(Tail(ls))

CountLines(ls, line) == Cardinality({k \in 1..Len(ls) : ls[k] = line})

IsPrefix(a, b) == Len(a) <= Len(b) /\ SubSeq(b, 1, Len(a)) = a

HeaderLine == <<"@", "@", "b", "a", "t", "c", "h", "l", "o", "a", "d", " ", " ",
                "i", "c", "u", "n", "i", "s", ".", "p">>

EndLine == <<"@", "@", "e", "n", "d">>

QQ == <<"\"", "\"">>

\* a field wrapped in double quotes
Quoted(f) == Len(f) >= 2 /\ f[1] = "\"" /\ f[Len(f)] = "\""

\* what is between the quotes
Unquoted(f) == SubSeq(f, 2, Len(f) - 1)

HasQuote(f) == \E j \in 1..Len(f) : f[j] = "\""

\* the number of records in the output
NumRecords == CountLines(Lines(output), HeaderLine)

\* the rows the loop has gone through
Processed == 1..(i - 1)

\* the part number cell of the row is absent, empty, blank or the sentinel
BlankPart(row) ==
    \/ "pt part" \notin DOMAIN row
    \/ row["pt part"].k = "nan"
    \/ /\ row["pt part"].k = "str"
       /\ \/ \A j \in 1..Len(row["pt part"].s) : row["pt part"].s[j] \in Whitespace
          \/ Lower(Strip(row["pt part"].s)) = <<"n", "a", "n">>

-----------------------------------------------------------------------------
(* C1: the record of the example row *)

C1_Lines ==
    << <<"@", "@", "b", "a", "t", "c", "h", "l", "o", "a", "d", " ", " ", "i", "c",
         "u", "n", "i", "s", ".", "p">>,
       <<"\"", "A", "B", "C", "1", "2", "3", "\"">>,
       <<"1", "0", " ", "-", " ", "-", " ", "\"", "S", "1", "\"", " ", "\"", "L",
         "1", "\"", " ", "\"", "\"", " ", "\"", "\"">>,
       <<"\"", "P", "O", "9", "9", "\"", " ", "-", " ", "-", " ", "\"", "\"", " ",
         "\"", "R", "E", "M", "A", "R", "K", "1", "\"", " ", "3", "/", "7", "/",
         "2", "4", " ", "1", "0", "0", " ", "2", "0", "0">>,
       <<"-">>,
       <<"-">>,
       <<"@", "@", "e", "n", "d">> >>

\* the same lines, the second to the sixth followed by one space
C1_LinesSpaced ==
    [k \in 1..7 |-> IF k \in 2..6 THEN C1_Lines[k] \o <<" ">> ELSE C1_Lines[k]]

C1_Case == pc = "done" /\ file.kind = "table" /\ file.rows = <<BaseRow>>

\* C1 as stated: for the single example row the output is exactly the seven
\* listed lines, nothing on a line but its terminator after the listed text.
C1_AsStated == C1_Case => output = JoinCRLF(C1_Lines)

\* C1, amended: for the single example row the output is exactly the seven
\* listed lines, each ended by CR LF, where the second to the sixth line each
\* carry one space between the listed text and the terminator.
C1_ExampleRecord == C1_Case => output = JoinCRLF(C1_LinesSpaced)

C1_Witness == C1_Case /\ output /= <<>>

-----------------------------------------------------------------------------
(* C8: the shape of a record *)

\* the g-th record of the lines ls (g from 0) has the seven lines of a record
\* in their order, and its part number is that of a row with one
RecordShape(ls, g) ==
    LET l2 == Fields(ls[7 * g + 2])
        l3 == Fields(ls[7 * g + 3])
        l4 == Fields(ls[7 * g + 4])
    IN  /\ ls[7 * g + 1] = HeaderLine
        /\ Len(l2) = 2 /\ Quoted(l2[1]) /\ l2[2] = <<>>
        /\ Unquoted(l2[1]) /= <<>>
        /\ \E k \in Processed :
              /\ ~BlankPart(df[k].row)
              /\ Unquoted(l2[1]) = Strip(PyStr(df[k].row["pt part"]))
        /\ Len(l3) = 8 /\ l3[2] = <<"-">> /\ l3[3] = <<"-">>
        /\ Quoted(l3[4]) /\ Quoted(l3[5]) /\ l3[6] = QQ /\ l3[7] = QQ /\ l3[8] = <<>>
        /\ Len(l4) = 9 /\ Quoted(l4[1]) /\ l4[2] = <<"-">> /\ l4[3] = <<"-">>
        /\ l4[4] = QQ /\ Quoted(l4[5]) /\ l4[9] = <<>>
        /\ ls[7 * g + 5] = <<"-", " ">>
        /\ ls[7 * g + 6] = <<"-", " ">>
        /\ ls[7 * g + 7] = EndLine

\* C8 as stated: every emitted record has exactly six lines.
C8_SixLines == LET ls == Lines(output) IN Len(ls) = 6 * CountLines(ls, HeaderLine)

\* C8, amended: every emitted record has exactly seven lines in fixed order
\* (header, part number, quantity/site/location, lot reference/order
\* number/date/accounts, two placeholder lines, terminator), and no record is
\* emitted for a row lacking a non-empty part number.
C8_SevenLines ==
    LET ls == Lines(output)
        n == CountLines(ls, HeaderLine)
    IN  /\ Terminated(output)
        /\ Len(ls) = 7 * n
        /\ \A g \in 0..(n - 1) : RecordShape(ls, g)

C8_Witness == pc = "done" /\ NumRecords = 2

-----------------------------------------------------------------------------
(* C6: the number of records *)

\* C6: the number of records in the output is the number of rows gone through
\* that have a part number, minus the number of those that raised (one
\* warning each); when the function returns every row has been gone through.
C6_RecordCount ==
    LET ls == Lines(output)
        n == Cardinality({k \in Processed : ~BlankPart(df[k].row)}) - Len(warnings)
    IN  /\ CountLines(ls, HeaderLine) = n
        /\ CountLines(ls, EndLine) = n
        /\ i <= Len(df) + 1
        /\ pc = "done" => i = Len(df) + 1

C6_Witness == pc = "done" /\ Len(df) = 2 /\ NumRecords = 1 /\ Len(warnings) = 1

-----------------------------------------------------------------------------
(* C10: the upload flow *)

\* the file cannot be read, or its table has no 'pt part' column
FatalInput ==
    \/ file.kind = "unreadable"
    \/ \E k \in 1..Len(file.rows) : "pt part" \notin DOMAIN file.rows[k]

Shown(w) == \E k \in 1..Len(ui) : ui[k] = w

\* C10: when loading or filtering the uploaded file fails, no row is gone
\* through, one error is shown and the content is neither previewed nor
\* offered; the download is offered only after a load that succeeded and a
\* content that is not empty.
C10_FatalAborts ==
    /\ (entry = "upload" /\ FatalInput /\ pc /= "start") =>
          /\ pc = "fatal"
          /\ i = 1 /\ output = <<>> /\ warnings = <<>>
          /\ Cardinality({k \in 1..Len(ui) : ui[k] = "error"}) = 1
          /\ ~Shown("cim_preview") /\ ~Shown("download_button") /\ ~Shown("success")
    /\ Shown("download_button") =>
          /\ entry = "upload" /\ ~FatalInput /\ Shown("success")
          /\ pc = "done" /\ output /= <<>>

C10_Witness == pc = "fatal" /\ file.kind = "table" /\ Shown("error")

-----------------------------------------------------------------------------
(* C7: the order of the records *)

\* a field of the row raises
Raises(row) ==
    qty(row).raised \/ eff_date(row).raised \/ dr_acct1(row).raised
    \/ dr_acct2(row).raised

\* the row has a part number and none of its fields raises
Valid(row) == ~BlankPart(row) /\ ~Raises(row)

ValidEntry(e) == Valid(e.row)

\* the part number line of a row's record
PartLine(row) == <<"\"">> \o Strip(PyStr(row["pt part"])) \o <<"\"", " ">>

\* the k-th record of the output is the record of the k-th valid row gone
\* through
InRowOrder ==
    LET ls == Lines(output)
        emitted == SelectSeq(SubSeq(df, 1, i - 1), ValidEntry)
    IN  /\ Len(ls) = 7 * Len(emitted)
        /\ \A k \in 1..Len(emitted) : ls[7 * (k - 1) + 2] = PartLine(emitted[k].row)

\* C7: the records are in the order of their rows, and a step never changes
\* or moves the text that is already written.
C7_RowOrder == []InRowOrder /\ [][IsPrefix(output, output')]_vars

C7_Witness ==
    /\ pc = "done" /\ NumRecords = 2
    /\ PartLine(df[1].row) /= PartLine(df[2].row)

-----------------------------------------------------------------------------
(* The steps of the loop *)

\* the loop is about to go through row i
AtRow == pc = "loop" /\ i <= Len(df)

\* the row the loop is about to go through
Row == df[i].row

\* what the step adds to the output
Added == SubSeq(output', Len(output) + 1, Len(output'))

\* the text is one whole record: seven terminated lines, the header line
\* first and the terminator line last
IsRecord(a) ==
    LET ls == Lines(a)
    IN  Terminated(a) /\ Len(ls) = 7 /\ ls[1] = HeaderLine /\ ls[7] = EndLine

\* the step writes one whole record behind what is there, and the record
\* has the property R
RecordAdded(R(_)) ==
    /\ IsPrefix(output, output')
    /\ \A a \in {Added} : IsRecord(a) /\ R(a)

\* the step adds one warning, for the position of row i, and no text
OneWarningAdded ==
    /\ output' = output
    /\ Len(warnings') = Len(warnings) + 1
    /\ SubSeq(warnings', 1, Len(warnings)) = warnings
    /\ warnings'[Len(warnings')].pos = df[i].index + 2

-----------------------------------------------------------------------------
(* C2: a row that raises *)

\* a row that raises adds no text and one warning naming index + 2, and the
\* loop goes on with the next row
RaisingRowStep ==
    (AtRow /\ ~BlankPart(Row) /\ Raises(Row)) =>
        (OneWarningAdded /\ i' = i + 1 /\ pc' = "loop")

\* when the function returns, every row has been gone through and every valid
\* row has its record, whatever rows raised before it
ValidRowsRecorded ==
    pc = "done" =>
        LET ls == Lines(output)
        IN  /\ i = Len(df) + 1
            /\ Terminated(output)
            /\ CountLines(ls, HeaderLine)
                   = Cardinality({k \in 1..Len(df) : Valid(df[k].row)})
            /\ \A k \in 1..Len(df) :
                  Valid(df[k].row) => \E l \in 1..Len(ls) : ls[l] = PartLine(df[k].row)

\* C2: a row whose fields raise contributes no text (never a part of a
\* record), exactly one warning is surfaced for it, naming row index + 2, and
\* every later row is still gone through and, when valid, recorded.
C2_FailureIsolation == [][RaisingRowStep]_vars /\ []ValidRowsRecorded

C2_Witness ==
    /\ pc = "done" /\ Len(df) = 2
    /\ ~BlankPart(df[1].row) /\ eff_date(df[1].row).raised
    /\ Valid(df[2].row)
    /\ NumRecords = 1 /\ Len(warnings) = 1
    /\ warnings[1].pos = df[1].index + 2

-----------------------------------------------------------------------------
(* C3: a row without a part number *)

\* C3: a row whose part number is absent, empty, blank or the sentinel adds
\* no record and no warning, whatever its other cells hold.
C3_SilentSkip ==
    [][(AtRow /\ BlankPart(Row)) =>
          (output' = output /\ warnings' = warnings /\ ui' = ui /\ i' = i + 1)]_vars

C3_Witness ==
    /\ pc = "done" /\ Len(df) = 2
    /\ BlankPart(df[1].row) /\ Raises(df[1].row)
    /\ BlankPart(df[2].row)
    /\ df[2].row["pt part"].k = "str" /\ df[2].row["pt part"].s /= <<>>
    /\ output = <<>> /\ warnings = <<>>

-----------------------------------------------------------------------------
(* C4: the effective date *)

\* the row is valid but for its date
OtherwiseValid(row) ==
    ~BlankPart(row) /\ ~qty(row).raised /\ ~dr_acct1(row).raised
    /\ ~dr_acct2(row).raised

DateAbsent(row) == "eff date" \notin DOMAIN row \/ row["eff date"].k \in {"nan", "none"}

DateParseable(row) ==
    /\ ~DateAbsent(row)
    /\ \/ row["eff date"].k = "date"
       \/ row["eff date"].k = "str" /\ IsIsoDate(row["eff date"].s)

DateUnparseable(row) == ~DateAbsent(row) /\ ~DateParseable(row)

\* the day of a parseable date cell, as 10000*y + 100*m + d
DayOf(row) ==
    IF row["eff date"].k = "date" THEN row["eff date"].n
    ELSE 10000 * ParseNat(SubSeq(row["eff date"].s, 1, 4))
         + 100 * ParseNat(SubSeq(row["eff date"].s, 6, 7))
         + ParseNat(SubSeq(row["eff date"].s, 9, 10))

\* day/month/2-digit-year without leading zeros on day or month
C4_Rendered(day) ==
    CASE day = 20240703 -> <<"3", "/", "7", "/", "2", "4">>
      [] day = 20051225 -> <<"2", "5", "/", "1", "2", "/", "0", "5">>

\* the date field of a record
DateOf(a) == Fields(Lines(a)[4])[6]

\* the date field of the record is as the claim renders the date of row i
DateAsClaimed(a) ==
    DateOf(a) = IF DateParseable(Row) THEN C4_Rendered(DayOf(Row)) ELSE <<>>

\* C4 as stated: an otherwise valid row whose date is absent or cannot be
\* parsed has its record, with an empty date; a parseable date is rendered
\* day/month/2-digit-year without leading zeros.
C4_AsStated ==
    [][(AtRow /\ OtherwiseValid(Row)) =>
          /\ RecordAdded(DateAsClaimed)
          /\ warnings' = warnings]_vars

\* C4, amended: an otherwise valid row whose date is absent has its record,
\* with an empty date; one whose date is present and cannot be parsed is
\* skipped with one warning and has no record; a parseable date is rendered
\* day/month/2-digit-year without leading zeros.
C4_DateField ==
    [][(AtRow /\ OtherwiseValid(Row)) =>
          IF DateUnparseable(Row) THEN OneWarningAdded
          ELSE /\ RecordAdded(DateAsClaimed)
               /\ warnings' = warnings]_vars

C4_Witness ==
    /\ pc = "done" /\ Len(df) = 2
    /\ OtherwiseValid(df[1].row) /\ DateUnparseable(df[1].row)
    /\ OtherwiseValid(df[2].row) /\ DateParseable(df[2].row)
    /\ DayOf(df[2].row) = 20051225
    /\ Len(warnings) = 1 /\ NumRecords = 1

-----------------------------------------------------------------------------
(* C5: the quoting of the fields *)

\* the cell of the column is empty or missing
EmptyOrMissing(row, col) ==
    \/ col \notin DOMAIN row
    \/ row[col].k \in {"nan", "none"}
    \/ row[col].k = "str" /\ Strip(row[col].s) = <<>>

\* the fields of the record of row i: the part number, site, location, lot
\* reference and order number are quoted, and are "" when their cell is
\* empty or missing; the quantity, the date and the accounts are not quoted
QuotingAsClaimed(a) ==
    LET ls == Lines(a)
        l2 == Fields(ls[2])
        l3 == Fields(ls[3])
        l4 == Fields(ls[4])
    IN  /\ Quoted(l2[1])
        /\ Quoted(l3[4]) /\ Quoted(l3[5]) /\ Quoted(l4[1]) /\ Quoted(l4[5])
        /\ EmptyOrMissing(Row, "site") => l3[4] = QQ
        /\ EmptyOrMissing(Row, "location") => l3[5] = QQ
        /\ EmptyOrMissing(Row, "ordernbr") => l4[1] = QQ
        /\ EmptyOrMissing(Row, "rmks") => l4[5] = QQ
        /\ ~HasQuote(l3[1])
        /\ ~HasQuote(l4[6]) /\ ~HasQuote(l4[7]) /\ ~HasQuote(l4[8])

\* C5: in every emitted record the part number, site, location, lot
\* reference and order number are wrapped in double quotes, each of the last
\* four is exactly "" when its source cell is empty or missing, and the
\* quantity, the date and the accounts are never quoted.
C5_Quoting == [][(AtRow /\ output' /= output) => RecordAdded(QuotingAsClaimed)]_vars

-----------------------------------------------------------------------------
(* C9: the quantity *)

\* the row is valid but for its quantity
ValidButQty(row) ==
    ~BlankPart(row) /\ ~eff_date(row).raised /\ ~dr_acct1(row).raised
    /\ ~dr_acct2(row).raised

\* the quantity cell, as a number
QtyNumber(row) == ToNumeric(Get(row, "lotserial qty", None))

\* the quantity field the claim gives a row: "0" for a missing cell or one
\* that is no number, the integer for a number without a fractional part, the
\* decimal rendering for any other finite number
C9_Rendered(row) ==
    CASE QtyNumber(row).k \in {"nan", "none"} -> <<"0">>
      [] QtyNumber(row).k = "int" -> IntToStr(QtyNumber(row).n)
      [] QtyNumber(row).k = "float" /\ QtyNumber(row).n % 10 = 0 ->
            IntToStr(QtyNumber(row).n \div 10)
      [] QtyNumber(row).k = "float" /\ QtyNumber(row).n % 10 /= 0 ->
            FloatToStr(QtyNumber(row).n)

\* the quantity field of a record
QtyOf(a) == Fields(Lines(a)[3])[1]

\* the quantity field of the record is as the claim renders the quantity of
\* row i (the claim names no rendering for an infinity)
QtyAsClaimed(a) == QtyNumber(Row).k /= "inf" => QtyOf(a) = C9_Rendered(Row)

\* C9: every row that is valid has its record whatever its quantity cell
\* holds, and the quantity field is "0" for a missing or non-numeric cell, the
\* integer rendering for a whole number and the decimal rendering otherwise.
C9_Quantity ==
    [][(AtRow /\ ValidButQty(Row)) =>
          /\ RecordAdded(QtyAsClaimed)
          /\ warnings' = warnings]_vars

====
